---- MODULE Spec2Model ----
(***************************************************************************)
(* Model of the concurrency demos of concurrency-in-rust:                  *)
(*   - src/queue.rs       SharedQueue<T> (Mutex<State<T>> + Condvar) with  *)
(*                        producer and consumer threads;                   *)
(*   - src/tcp_server.rs  ThreadPool / Worker over an mpsc channel whose   *)
(*                        Receiver sits behind Arc<Mutex<..>>.             *)
(*   - src/optimistic_locking.rs  threads incrementing an AtomicUsize with  *)
(*                        a load / compare_exchange retry loop.            *)
(* Every SharedQueue method body runs with the state mutex held from its   *)
(* first statement to its return (or to condvar.wait, which releases it),  *)
(* so one action is one critical section.  The receiver mutex of the pool  *)
(* is held across a blocking recv() and is therefore modelled explicitly.  *)
(***************************************************************************)
EXTENDS Integers, Sequences, FiniteSets, TLC

\* ---------------------------------------------------------------- bounds
NumProducers == 2
NumConsumers == 2
ItemsPerProducer == 2
MaxShutdownCalls == 2
MaxWorkers == 2
MaxJobs == 3
NumThreads == 2
IncrementsPerThread == 2

Producers == 0 .. (NumProducers - 1)
Consumers == 0 .. (NumConsumers - 1)
WorkerIds == 0 .. (MaxWorkers - 1)
Jobs == 1 .. MaxJobs
Threads == 0 .. (NumThreads - 1)
NoWorker == -1
NotParked == -1
NoSize == -1

VARIABLES
    \* ---- src/queue.rs
    queue,          \* State.queue : VecDeque<i32>
    shutdown,       \* State.shutdown
    poisoned,       \* poison flag of SharedQueue.state (std::sync::Mutex)
    ppc,            \* producer thread position
    pj,             \* producer loop variable j
    cpc,            \* consumer thread position
    parkEv,         \* per consumer: events seen when the current dequeue first parked
    mpc,            \* thread calling send_shutdown
    shutdownCalls,  \* number of send_shutdown calls made
    lastSize,       \* value returned by the last size() call
    enqLog,         \* history: items in the order their enqueue completed
    deqLog,         \* history: values returned by dequeue, in lock order
    \* ---- src/tcp_server.rs
    poolSize,       \* argument of ThreadPool::new
    tpc,            \* position of the thread owning the pool
    unwinding,      \* owner is unwinding from a panic while the pool is dropped
    senderAlive,    \* ThreadPool.sender is Some and not dropped
    chan,           \* jobs buffered in the mpsc channel
    rxLock,         \* holder of the Mutex<Receiver<Job>>
    wpc,            \* worker thread position
    wjob,           \* job claimed by a worker
    submitted,      \* jobs accepted by execute
    panicky,        \* submitted jobs whose closure panics
    execLog,        \* history: <<job, worker>> for every job() call made
    joinIdx,        \* index of the next worker drop() joins
    joinLog,        \* history: workers whose join() has returned, in order
    bufAtDrop,      \* history: jobs buffered when the sender was dropped
    \* ---- src/optimistic_locking.rs
    counter,        \* the shared AtomicUsize
    apc,            \* position of each incrementing thread
    current,        \* per thread: the value it expects the counter to hold
    success_count,  \* per thread: compare_exchange calls that returned Ok
    retry_count,    \* per thread: compare_exchange calls that returned Err
    seen,           \* history: other threads' successes when `current` was last set
    final_value     \* value main loads after joining every thread

qvars == <<queue, shutdown, poisoned, ppc, pj, cpc, parkEv, mpc, shutdownCalls,
           lastSize, enqLog, deqLog>>
tvars == <<poolSize, tpc, unwinding, senderAlive, chan, rxLock, wpc, wjob,
           submitted, panicky, execLog, joinIdx, joinLog, bufAtDrop>>
avars == <<counter, apc, current, success_count, retry_count, seen, final_value>>
vars == <<queue, shutdown, poisoned, ppc, pj, cpc, parkEv, mpc, shutdownCalls,
          lastSize, enqLog, deqLog, poolSize, tpc, unwinding, senderAlive, chan, rxLock,
          wpc, wjob, submitted, panicky, execLog, joinIdx, joinLog, bufAtDrop,
          counter, apc, current, success_count, retry_count, seen, final_value>>

\* ------------------------------------------------------------ helpers
Range(s) == { s[i] : i \in 1 .. Len(s) }

RECURSIVE SelectSeqBy(_, _)
\* subsequence of s made of the elements that belong to set S
SelectSeqBy(s, S) ==
    IF s = << >> THEN << >>
    ELSE IF Head(s) \in S THEN << Head(s) >> \o SelectSeqBy(Tail(s), S)
         ELSE SelectSeqBy(Tail(s), S)

IsStrictlyIncreasing(s) == \A i, k \in 1 .. Len(s) : i < k => s[i] < s[k]

\* `as i32` on a usize: values above i32::MAX wrap to the negative range
I32Max == 2147483647
AsI32(x) == IF x <= I32Max THEN x ELSE ((x - I32Max) - 1) - I32Max - 1

\* val = (id * items_per_producer + j) as i32
Val(id, j) == AsI32(id * ItemsPerProducer + j)

ItemsOf(id) == { Val(id, j) : j \in 0 .. (ItemsPerProducer - 1) }

\* ================================================================ queue.rs
QInit ==
    /\ queue = << >>
    /\ shutdown = FALSE
    /\ poisoned = FALSE
    /\ ppc = [p \in Producers |-> "enqueue"]
    /\ pj = [p \in Producers |-> 0]
    /\ cpc = [c \in Consumers |-> "dequeue"]
    /\ parkEv = [c \in Consumers |-> NotParked]
    /\ mpc = "running"
    /\ shutdownCalls = 0
    /\ lastSize = NoSize
    /\ enqLog = << >>
    /\ deqLog = << >>

\* state.queue.push_back(item)
PushFront(q, item) == << item >> \o q
PushBack(q, item) == Append(q, item)

\* state.queue.pop_front() : what is left in the queue
PopFrontKeep(q) == q
PopFront(q) == Tail(q)

\* if state.shutdown { panic!(..) }
EnqueueAcceptsAlways == FALSE
EnqueueRejected == shutdown

\* condvar.notify_one(): at most one parked consumer leaves the wait set
Waiting == { c \in Consumers : cpc[c] = "waiting" }
NotifyOneWakesAll(ws) == { ws }
NotifyOne(ws) == IF ws = {} THEN { {} } ELSE { {c} : c \in ws }

\* condvar.notify_all(): every parked consumer leaves the wait set
NotifyAllWakesOne(ws) == IF ws = {} THEN {} ELSE { CHOOSE c \in ws : TRUE }
NotifyAll(ws) == ws

Wake(W) == [c \in Consumers |-> IF c \in W THEN "woken" ELSE cpc[c]]

\* number of enqueue / send_shutdown effects applied to the state so far
Events == Len(enqLog) + (IF shutdown THEN 1 ELSE 0)

\* one iteration of the loop in dequeue
DequeueOutcomeShutdownFirst(c) ==
    IF shutdown THEN "none" ELSE IF queue # << >> THEN "some" ELSE "wait"
DequeueOutcomeTrustWake(c) ==
    IF queue # << >> THEN "some"
    ELSE IF shutdown \/ parkEv[c] # NotParked THEN "none" ELSE "wait"
DequeueOutcome(c) ==
    IF queue # << >> THEN "some" ELSE IF shutdown THEN "none" ELSE "wait"

\* SharedQueue::enqueue, called from the producer closure
Enqueue(p) ==
    /\ ppc[p] = "enqueue"
    /\ IF poisoned \/ EnqueueRejected
       THEN \* lock().unwrap() on a poisoned mutex, or the panic! under the guard
            /\ ppc' = [ppc EXCEPT ![p] = "panicked"]
            /\ poisoned' = TRUE
            /\ UNCHANGED <<queue, pj, cpc, enqLog>>
       ELSE /\ queue' = PushBack(queue, Val(p, pj[p]))
            /\ enqLog' = Append(enqLog, Val(p, pj[p]))
            /\ \E W \in NotifyOne(Waiting) : cpc' = Wake(W)
            /\ pj' = [pj EXCEPT ![p] = pj[p] + 1]
            /\ ppc' = [ppc EXCEPT ![p] =
                          IF pj[p] + 1 < ItemsPerProducer THEN "enqueue" ELSE "done"]
            /\ UNCHANGED poisoned
    /\ UNCHANGED <<shutdown, parkEv, mpc, shutdownCalls, lastSize, deqLog>>
    /\ UNCHANGED tvars
    /\ UNCHANGED avars

\* the loop of dequeue, entered with the guard held by consumer c
DequeueLoop(c) ==
    IF poisoned
    THEN \* lock().unwrap() / wait(state).unwrap() return Err
         /\ cpc' = [cpc EXCEPT ![c] = "panicked"]
         /\ UNCHANGED <<queue, parkEv, deqLog>>
    ELSE CASE DequeueOutcome(c) = "some" ->
                /\ queue' = PopFront(queue)
                /\ deqLog' = Append(deqLog, [item |-> Head(queue), by |-> c,
                                             waited |-> parkEv[c] # NotParked,
                                             closed |-> shutdown])
                /\ parkEv' = [parkEv EXCEPT ![c] = NotParked]
                /\ cpc' = [cpc EXCEPT ![c] = "dequeue"]
           [] DequeueOutcome(c) = "none" ->
                /\ cpc' = [cpc EXCEPT ![c] = "done"]
                /\ UNCHANGED <<queue, parkEv, deqLog>>
           [] DequeueOutcome(c) = "wait" ->
                /\ cpc' = [cpc EXCEPT ![c] = "waiting"]
                /\ parkEv' = [parkEv EXCEPT ![c] =
                                 IF parkEv[c] = NotParked THEN Events ELSE parkEv[c]]
                /\ UNCHANGED <<queue, deqLog>>

\* SharedQueue::dequeue, called from `while let Some(_) = q.dequeue()`
Dequeue(c) ==
    /\ cpc[c] = "dequeue"
    /\ DequeueLoop(c)
    /\ UNCHANGED <<shutdown, poisoned, ppc, pj, mpc, shutdownCalls, lastSize, enqLog>>
    /\ UNCHANGED tvars
    /\ UNCHANGED avars

\* condvar.wait returns: the guard is re-acquired and the loop runs again
DequeueWake(c) ==
    /\ cpc[c] = "woken"
    /\ DequeueLoop(c)
    /\ UNCHANGED <<shutdown, poisoned, ppc, pj, mpc, shutdownCalls, lastSize, enqLog>>
    /\ UNCHANGED tvars
    /\ UNCHANGED avars

\* Condvar::wait may return without a notification
SpuriousWake(c) ==
    /\ cpc[c] = "waiting"
    /\ cpc' = [cpc EXCEPT ![c] = "woken"]
    /\ UNCHANGED <<queue, shutdown, poisoned, ppc, pj, parkEv, mpc, shutdownCalls,
                   lastSize, enqLog, deqLog>>
    /\ UNCHANGED tvars
    /\ UNCHANGED avars

\* state.shutdown = true
ShutdownToggled == ~shutdown
ShutdownValue == TRUE

\* SharedQueue::send_shutdown
SendShutdown ==
    /\ mpc = "running"
    /\ shutdownCalls < MaxShutdownCalls
    /\ IF poisoned
       THEN /\ mpc' = "panicked"
            /\ UNCHANGED <<shutdown, cpc, shutdownCalls>>
       ELSE /\ shutdown' = ShutdownValue
            /\ cpc' = Wake(NotifyAll(Waiting))
            /\ shutdownCalls' = shutdownCalls + 1
            /\ UNCHANGED mpc
    /\ UNCHANGED <<queue, poisoned, ppc, pj, parkEv, lastSize, enqLog, deqLog>>
    /\ UNCHANGED tvars
    /\ UNCHANGED avars

\* SharedQueue::size
Size ==
    /\ mpc = "running"
    /\ IF poisoned
       THEN \* lock().unwrap() returns Err
            /\ mpc' = "panicked"
            /\ UNCHANGED lastSize
       ELSE /\ lastSize' = Len(queue)
            /\ UNCHANGED mpc
    /\ UNCHANGED <<queue, shutdown, poisoned, ppc, pj, cpc, parkEv, shutdownCalls,
                   enqLog, deqLog>>
    /\ UNCHANGED tvars
    /\ UNCHANGED avars

\* ============================================================ tcp_server.rs
TIdle ==
    /\ tpc = "new"
    /\ unwinding = FALSE
    /\ senderAlive = FALSE
    /\ chan = << >>
    /\ rxLock = NoWorker
    /\ wpc = [w \in WorkerIds |-> "unspawned"]
    /\ wjob = [w \in WorkerIds |-> 0]
    /\ submitted = {}
    /\ panicky = {}
    /\ execLog = << >>
    /\ joinIdx = 0
    /\ joinLog = << >>
    /\ bufAtDrop = 0

\* the Arc<Mutex<Receiver>> lives as long as one worker closure does
ReceiverAlive == \E w \in WorkerIds : wpc[w] \in {"lock", "recv", "exec"}

\* thread.join() returns once the worker thread has ended
JoinNoWait(w) == TRUE
Terminated(w) == wpc[w] \in {"done", "panicked"}

\* ThreadPool::new(size): `for id in 0..size` spawns the workers
Spawned(size) == { w \in WorkerIds : w < size }

\* what ThreadPool::new(size) leaves the caller with
NewResult(size) == "running"

PoolNew ==
    /\ tpc = "new"
    /\ tpc' = NewResult(poolSize)
    /\ senderAlive' = TRUE
    /\ wpc' = [w \in WorkerIds |-> IF w \in Spawned(poolSize) THEN "lock" ELSE "unspawned"]
    /\ UNCHANGED <<poolSize, unwinding, chan, rxLock, wjob, submitted, panicky,
                   execLog, joinIdx, joinLog, bufAtDrop>>
    /\ UNCHANGED qvars
    /\ UNCHANGED avars

\* ThreadPool::execute: sender.as_ref().unwrap().send(job).unwrap()
Execute(job, fails) ==
    /\ tpc = "running"
    /\ job = Cardinality(submitted) + 1
    /\ IF ReceiverAlive
       THEN /\ chan' = Append(chan, job)
            /\ submitted' = submitted \cup {job}
            /\ panicky' = IF fails THEN panicky \cup {job} ELSE panicky
            /\ UNCHANGED <<tpc, unwinding>>
       ELSE \* send returns Err(SendError): the caller panics and unwinds
            /\ tpc' = "unwind"
            /\ unwinding' = TRUE
            /\ UNCHANGED <<chan, submitted, panicky>>
    /\ UNCHANGED <<poolSize, senderAlive, rxLock, wpc, wjob, execLog, joinIdx, joinLog, bufAtDrop>>
    /\ UNCHANGED qvars
    /\ UNCHANGED avars

\* Drop for ThreadPool: drop(self.sender.take())
DropSender ==
    /\ tpc \in {"running", "unwind"}
    /\ senderAlive' = FALSE
    /\ bufAtDrop' = Len(chan)
    /\ joinIdx' = 0
    /\ tpc' = "join"
    /\ UNCHANGED <<poolSize, unwinding, chan, rxLock, wpc, wjob, submitted, panicky, execLog,
                   joinLog>>
    /\ UNCHANGED qvars
    /\ UNCHANGED avars

\* the worker `for worker in &mut self.workers` visits next
NextJoinedLast == poolSize - 1 - joinIdx
NextJoined == joinIdx

\* Drop for ThreadPool: thread.join().unwrap() for the next worker
Join ==
    /\ tpc = "join"
    /\ joinIdx < poolSize
    /\ Terminated(NextJoined)
    /\ joinLog' = Append(joinLog, NextJoined)
    /\ IF wpc[NextJoined] = "panicked"
       THEN /\ tpc' = IF unwinding THEN "aborted" ELSE "panicked"
            /\ UNCHANGED joinIdx
       ELSE /\ joinIdx' = joinIdx + 1
            /\ UNCHANGED tpc
    /\ UNCHANGED <<poolSize, unwinding, senderAlive, chan, rxLock, wpc, wjob, submitted,
                   panicky, execLog, bufAtDrop>>
    /\ UNCHANGED qvars
    /\ UNCHANGED avars

\* Drop for ThreadPool: the loop over the workers is over, drop returns
DropReturn ==
    /\ tpc = "join"
    /\ joinIdx = poolSize
    /\ tpc' = "dropped"
    /\ UNCHANGED <<poolSize, unwinding, senderAlive, chan, rxLock, wpc, wjob, submitted,
                   panicky, execLog, joinIdx, joinLog, bufAtDrop>>
    /\ UNCHANGED qvars
    /\ UNCHANGED avars

\* worker loop: receiver.lock().unwrap()
WLock(w) ==
    /\ tpc # "aborted"
    /\ wpc[w] = "lock"
    /\ rxLock = NoWorker
    /\ rxLock' = w
    /\ wpc' = [wpc EXCEPT ![w] = "recv"]
    /\ UNCHANGED <<poolSize, tpc, unwinding, senderAlive, chan, wjob, submitted, panicky,
                   execLog, joinIdx, joinLog, bufAtDrop>>
    /\ UNCHANGED qvars
    /\ UNCHANGED avars

\* the holder of the receiver mutex once `let message = ..recv();` is over
LockAfterRecvHeld(w) == w
LockAfterRecv(w) == NoWorker

\* worker loop: .recv() under the guard, then the guard temporary is dropped
WRecv(w) ==
    /\ tpc # "aborted"
    /\ wpc[w] = "recv"
    /\ rxLock = w
    /\ \/ /\ chan # << >>
          /\ wjob' = [wjob EXCEPT ![w] = Head(chan)]
          /\ chan' = Tail(chan)
          /\ wpc' = [wpc EXCEPT ![w] = "exec"]
       \/ /\ chan = << >>
          /\ ~senderAlive
          /\ wpc' = [wpc EXCEPT ![w] = "done"]
          /\ UNCHANGED <<chan, wjob>>
    /\ rxLock' = LockAfterRecv(w)
    /\ UNCHANGED <<poolSize, tpc, unwinding, senderAlive, submitted, panicky,
                   execLog, joinIdx, joinLog, bufAtDrop>>
    /\ UNCHANGED qvars
    /\ UNCHANGED avars

\* what the worker thread does after job() unwinds with a panic
AfterJobPanic == "panicked"

\* worker loop: Ok(job) => job()
WExec(w) ==
    /\ tpc # "aborted"
    /\ wpc[w] = "exec"
    /\ execLog' = Append(execLog, <<wjob[w], w>>)
    /\ wpc' = [wpc EXCEPT ![w] = IF wjob[w] \in panicky THEN AfterJobPanic ELSE "lock"]
    /\ UNCHANGED <<poolSize, tpc, unwinding, senderAlive, chan, rxLock, wjob, submitted,
                   panicky, joinIdx, joinLog, bufAtDrop>>
    /\ UNCHANGED qvars
    /\ UNCHANGED avars

\* ==================================================== optimistic_locking.rs
NotLoaded == -1

AInit ==
    /\ counter = 0
    /\ apc = [t \in Threads |-> "load"]
    /\ current = [t \in Threads |-> 0]
    /\ success_count = [t \in Threads |-> 0]
    /\ retry_count = [t \in Threads |-> 0]
    /\ seen = [t \in Threads |-> 0]
    /\ final_value = NotLoaded

RECURSIVE SumOver(_, _)
\* sum of f[t] for t in S
SumOver(f, S) ==
    IF S = {} THEN 0
    ELSE LET t == CHOOSE x \in S : TRUE IN f[t] + SumOver(f, S \ {t})

\* compare_exchange calls of the other threads that returned Ok so far
OthersSuccesses(t) == SumOver(success_count, Threads \ {t})

\* let mut current = counter_clone.load(Ordering::SeqCst)
Load(t) ==
    /\ apc[t] = "load"
    /\ current' = [current EXCEPT ![t] = counter]
    /\ seen' = [seen EXCEPT ![t] = OthersSuccesses(t)]
    /\ apc' = [apc EXCEPT ![t] = "cas"]
    /\ UNCHANGED <<counter, success_count, retry_count, final_value>>
    /\ UNCHANGED qvars
    /\ UNCHANGED tvars

\* compare_exchange(current, new_value, ..) stores only if the counter holds `current`
CasAlwaysSucceeds(t) == TRUE
CasSucceeds(t) == counter = current[t]

\* Err(actual_value) => current = actual_value
RetryStale(t) == current[t]
RetryValue(t) == counter

\* one turn of the retry loop: new_value = current + 1 (far below usize::MAX
\* here), compare_exchange, then the match on its result
CompareExchange(t) ==
    /\ apc[t] = "cas"
    /\ IF CasSucceeds(t)
       THEN /\ counter' = current[t] + 1
            /\ success_count' = [success_count EXCEPT ![t] = success_count[t] + 1]
            /\ apc' = [apc EXCEPT ![t] =
                          IF success_count[t] + 1 < IncrementsPerThread THEN "load" ELSE "done"]
            /\ UNCHANGED <<current, retry_count, seen>>
       ELSE /\ current' = [current EXCEPT ![t] = RetryValue(t)]
            /\ retry_count' = [retry_count EXCEPT ![t] = retry_count[t] + 1]
            /\ seen' = [seen EXCEPT ![t] = OthersSuccesses(t)]
            /\ UNCHANGED <<counter, success_count, apc>>
    /\ UNCHANGED final_value
    /\ UNCHANGED qvars
    /\ UNCHANGED tvars

\* main: every handle joined, then final_value = counter.load(SeqCst)
FinalLoad ==
    /\ final_value = NotLoaded
    /\ \A t \in Threads : apc[t] = "done"
    /\ final_value' = counter
    /\ UNCHANGED <<counter, apc, current, success_count, retry_count, seen>>
    /\ UNCHANGED qvars
    /\ UNCHANGED tvars

\* ============================================================ specifications
QNext ==
    \/ \E p \in Producers : Enqueue(p)
    \/ \E c \in Consumers : Dequeue(c)
    \/ \E c \in Consumers : DequeueWake(c)
    \/ \E c \in Consumers : SpuriousWake(c)
    \/ SendShutdown
    \/ Size

\* the queue program: producers, consumers and a caller of send_shutdown
QueueInit == QInit /\ TIdle /\ poolSize = 0 /\ AInit
QueueSpec == QueueInit /\ [][QNext]_vars

\* every thread that can take a step of its code eventually does; a spurious
\* wake-up is possible but never promised
QueueFairSpec ==
    /\ QueueSpec
    /\ \A p \in Producers : WF_vars(Enqueue(p))
    /\ \A c \in Consumers : WF_vars(Dequeue(c)) /\ WF_vars(DequeueWake(c))

TNext ==
    \/ PoolNew
    \/ \E job \in Jobs, fails \in BOOLEAN : Execute(job, fails)
    \/ DropSender
    \/ Join
    \/ DropReturn
    \/ \E w \in WorkerIds : WLock(w)
    \/ \E w \in WorkerIds : WRecv(w)
    \/ \E w \in WorkerIds : WExec(w)

\* a caller that builds a pool of any size, submits jobs and releases the pool
PoolInit == QInit /\ TIdle /\ poolSize \in 0 .. MaxWorkers /\ AInit
PoolSpec == PoolInit /\ [][TNext]_vars

\* threads run; a job that was started ends (by returning or by panicking)
PoolFairSpec ==
    /\ PoolSpec
    /\ WF_vars(Join) /\ WF_vars(DropReturn)
    /\ \A w \in WorkerIds : WF_vars(WLock(w)) /\ WF_vars(WRecv(w)) /\ WF_vars(WExec(w))

ANext ==
    \/ \E t \in Threads : Load(t)
    \/ \E t \in Threads : CompareExchange(t)
    \/ FinalLoad

\* the counter program: the incrementing threads and main's final load
CasInit == QInit /\ TIdle /\ poolSize = 0 /\ AInit
CasSpec == CasInit /\ [][ANext]_vars

\* every thread, main included, keeps being scheduled
CasFairSpec ==
    /\ CasSpec
    /\ WF_vars(FinalLoad)
    /\ \A t \in Threads : WF_vars(Load(t)) /\ WF_vars(CompareExchange(t))

\* ================================================================== claims
DeqItems == [i \in 1 .. Len(deqLog) |-> deqLog[i].item]

\* number of job() calls made for job j
Runs(j) == Cardinality({ i \in 1 .. Len(execLog) : execLog[i][1] = j })

AllWorkersEnded == \A w \in Spawned(poolSize) : Terminated(w)

NoneIffEmptyAndShutdown ==
    [][\A c \in Consumers :
          /\ (cpc[c] # "done" /\ cpc'[c] = "done") => (queue = << >> /\ shutdown)
          /\ (/\ cpc[c] \in {"dequeue", "woken"}
              /\ cpc'[c] # cpc[c]
              /\ ~poisoned
              /\ queue = << >> /\ shutdown) => cpc'[c] = "done"]_vars

\* a consumer was told None while another is still in its loop
SomeConsumerGotNone ==
    /\ \E c \in Consumers : cpc[c] = "done"
    /\ \E c \in Consumers : cpc[c] \in {"dequeue", "woken"}
    /\ enqLog # << >>

\* C3: the values returned, followed by the pending ones, are the enqueued
\* values in enqueue order; so for each producer the values of that producer
\* leave the queue in the order the producer enqueued them.
PerProducerFifo ==
    /\ DeqItems \o queue = enqLog
    /\ \A p \in Producers :
           IsStrictlyIncreasing(SelectSeqBy(DeqItems \o queue, ItemsOf(p)))

\* both consumers returned values, the producers' values are interleaved
InterleavedDequeues ==
    /\ Len(deqLog) >= 3
    /\ deqLog[1].item \in ItemsOf(1)
    /\ deqLog[2].item \in ItemsOf(0)
    /\ deqLog[3].item \in ItemsOf(1)
    /\ deqLog[1].by # deqLog[3].by

\* C4: once the pool was dropped and its workers have ended, every job that
\* execute accepted was run exactly once.
ExactlyOnceExecution ==
    (poolSize >= 1 /\ ~senderAlive /\ tpc # "new" /\ AllWorkersEnded) =>
        \A j \in submitted : Runs(j) = 1

\* C5: drop returns only when every accepted job was run and every worker
\* has ended, and a drop that has started comes to an end; it returns unless a
\* job panicked.
TeardownDrains ==
    /\ [](tpc = "dropped" =>
            /\ \A j \in submitted : Runs(j) = 1
            /\ chan = << >>
            /\ AllWorkersEnded)
    /\ (tpc = "join" ~> tpc \in {"dropped", "panicked", "aborted"})
    /\ (tpc = "join" ~> (tpc = "dropped" \/ \E w \in WorkerIds : wpc[w] = "panicked"))

\* drop returned for a pool of two workers with jobs still buffered when the
\* sender was dropped
DroppedWithBufferedJobs ==
    /\ tpc = "dropped"
    /\ poolSize >= 2
    /\ bufAtDrop >= 2
    /\ Cardinality(submitted) >= 2

\* C6: a job that panics does not end the worker that ran it, and the
\* teardown of the pool does not fail.
TaskFailureContained ==
    /\ \A w \in WorkerIds : wpc[w] # "panicked"
    /\ tpc \notin {"panicked", "aborted"}

\* C7: once shutdown is set, every enqueue panics and appends nothing.
EnqueueAfterShutdownRejected ==
    [][shutdown =>
          /\ enqLog' = enqLog
          /\ Len(queue') <= Len(queue)
          /\ \A p \in Producers : ppc'[p] # ppc[p] => ppc'[p] = "panicked"]_vars

\* an enqueue was rejected
EnqueuePanicked ==
    /\ shutdown
    /\ \E p \in Producers : ppc[p] = "panicked" /\ pj[p] < ItemsPerProducer

\* C8: ThreadPool::new(0) never yields a pool.
ZeroWorkersRejected == poolSize = 0 => tpc \in {"new", "construct_failed"}

\* C9: send_shutdown leaves no consumer parked, and once shutdown is set with
\* all producers finished every consumer loop ends, with the queue empty and
\* as many values returned as were enqueued.
ShutdownDrains ==
    /\ [][shutdownCalls' > shutdownCalls => \A c \in Consumers : cpc'[c] # "waiting"]_vars
    /\ (shutdown /\ \A p \in Producers : ppc[p] = "done")
          ~> (/\ \A c \in Consumers : cpc[c] = "done"
              /\ queue = << >>
              /\ Len(deqLog) = Len(enqLog))

\* the run of main is over: every producer finished, every consumer got None
AllConsumersFinished ==
    /\ shutdown
    /\ \A p \in Producers : ppc[p] = "done"
    /\ \A c \in Consumers : cpc[c] = "done"
    /\ Len(enqLog) = NumProducers * ItemsPerProducer

\* C10: a dequeue call that parked returns only after an enqueue or a
\* send_shutdown took effect since it parked.
NoPrematureReturn ==
    [][\A c \in Consumers :
          (/\ parkEv[c] # NotParked
           /\ cpc[c] = "woken"
           /\ cpc'[c] \in {"dequeue", "done"}) => Events > parkEv[c]]_vars

\* a dequeue call that parked has returned a value, and one that parked has
\* returned None
ParkedThenReturned ==
    /\ \E i \in 1 .. Len(deqLog) : deqLog[i].waited
    /\ \E c \in Consumers : cpc[c] = "done" /\ parkEv[c] # NotParked

\* C11: a send_shutdown call made when shutdown is already true leaves
\* shutdown true and changes nothing else of the queue, of the wait set or of
\* any thread, so every later call sees the state one call would have left.
IdempotentShutdown ==
    [][(shutdown /\ shutdownCalls' > shutdownCalls) =>
          /\ shutdown'
          /\ queue' = queue
          /\ <<poisoned, ppc, pj, cpc, parkEv, mpc, lastSize, enqLog, deqLog>>'
               = <<poisoned, ppc, pj, cpc, parkEv, mpc, lastSize, enqLog, deqLog>>]_vars

\* send_shutdown was called twice and items are still queued
ShutdownCalledTwice ==
    /\ shutdownCalls = 2
    /\ shutdown
    /\ queue # << >>

\* C12: shutdown starts false and no step of enqueue, dequeue, send_shutdown
\* or size makes it false once it is true.
ShutdownMonotonic ==
    /\ ~shutdown
    /\ [][shutdown => shutdown']_vars

\* every operation ran after shutdown was set
OperationsAfterShutdown ==
    /\ shutdown
    /\ shutdownCalls = 2
    /\ lastSize = 0
    /\ \E i \in 1 .. Len(deqLog) : deqLog[i].closed
    /\ \E p \in Producers : ppc[p] = "panicked"

\* C14: a rejected enqueue changes neither the items nor the flag, and no
\* other thread's dequeue, send_shutdown or size call fails because of it.
LifecycleViolationLocal ==
    /\ \A c \in Consumers : cpc[c] # "panicked"
    /\ mpc # "panicked"

\* C17: an enqueue that is accepted appends its item at the back and takes
\* exactly one consumer out of the wait set when one is parked, none otherwise.
EnqueueWakesOne ==
    [][enqLog' # enqLog =>
          /\ queue' = Append(queue, enqLog'[Len(enqLog')])
          /\ \A c \in Consumers : cpc[c] # "waiting" => cpc'[c] = cpc[c]
          /\ Cardinality({ c \in Consumers : cpc[c] = "waiting" /\ cpc'[c] = "woken" })
               = (IF Waiting = {} THEN 0 ELSE 1)
          /\ Cardinality({ c \in Consumers : cpc[c] = "waiting" /\ cpc'[c] = "waiting" })
               = (IF Waiting = {} THEN 0 ELSE Cardinality(Waiting) - 1)]_vars

\* the first enqueue found two consumers parked: one was woken, one still waits
OneWokenOneParked ==
    /\ Len(enqLog) = 1
    /\ queue # << >>
    /\ ~shutdown
    /\ \E c1, c2 \in Consumers : cpc[c1] = "woken" /\ cpc[c2] = "waiting"

AllItems == UNION { ItemsOf(p) : p \in Producers }

\* C18: the queue is never non-empty with every consumer parked, and every
\* item that is enqueued is eventually returned by a dequeue.
NoStrandedWork ==
    /\ [](~(queue # << >> /\ \A c \in Consumers : cpc[c] = "waiting"))
    /\ \A v \in AllItems : (v \in Range(queue)) ~> (v \in Range(DeqItems))

\* C15: drop has dropped the sender before it joins a worker, the workers
\* are joined in index order without a gap, and when drop returns every
\* worker of the pool has been joined.
TeardownOrder ==
    /\ joinLog # << >> => ~senderAlive
    /\ Len(joinLog) <= poolSize
    /\ \A i \in 1 .. Len(joinLog) : joinLog[i] = i - 1
    /\ tpc = "dropped" => Len(joinLog) = poolSize

\* drop returned after joining two workers
BothWorkersJoined ==
    /\ tpc = "dropped"
    /\ poolSize = 2
    /\ joinLog = << 0, 1 >>
    /\ execLog # << >>

\* the state of a worker in the state machine of the specification
WorkerState(pc) ==
    CASE pc \in {"lock", "recv"} -> "Running"
      [] pc = "exec" -> "Executing"
      [] pc \in {"done", "panicked"} -> "Terminated"
      [] OTHER -> "Unspawned"

\* C16: a worker only moves Running -> Executing -> Running or
\* Running -> Terminated, the latter only with the channel closed and empty,
\* and a Terminated worker stays Terminated.
WorkerStateMachine ==
    [][\A w \in WorkerIds :
          LET a == WorkerState(wpc[w])
              b == WorkerState(wpc'[w])
          IN  (a # b /\ a # "Unspawned") =>
                 \/ a = "Running" /\ b = "Executing"
                 \/ a = "Executing" /\ b = "Running"
                 \/ a = "Running" /\ b = "Terminated" /\ ~senderAlive /\ chan = << >>]_vars

\* C19: the receiver mutex is held only by a worker blocked in recv, never by
\* a worker that is running a job, so a worker waiting for the mutex can take
\* it whenever no worker is in recv, whatever jobs are running.
WorkersRunInParallel ==
    /\ \A w \in WorkerIds : wpc[w] = "exec" => rxLock # w
    /\ rxLock # NoWorker => wpc[rxLock] = "recv"
    /\ \A v \in WorkerIds :
          (/\ wpc[v] = "lock"
           /\ tpc # "aborted"
           /\ \A w \in WorkerIds : wpc[w] # "recv") => ENABLED WLock(v)

\* two workers are running a job at the same time
TwoJobsAtOnce ==
    \E w, v \in WorkerIds : w # v /\ wpc[w] = "exec" /\ wpc[v] = "exec"

\* C13: every compare_exchange that stores raises the counter by exactly 1,
\* the counter always equals the number of successful compare_exchange calls,
\* and the value main loads after the joins is NumThreads * IncrementsPerThread.
CasNoLostUpdate ==
    /\ [][counter' # counter => counter' = counter + 1]_vars
    /\ [](counter = SumOver(success_count, Threads))
    /\ []((\A t \in Threads : apc[t] = "done") =>
             counter = NumThreads * IncrementsPerThread)
    /\ [](final_value # NotLoaded => final_value = NumThreads * IncrementsPerThread)

\* main loaded the expected total after a run in which threads conflicted
FinalValueAfterConflicts ==
    /\ final_value = NumThreads * IncrementsPerThread
    /\ \E t, u \in Threads : t # u /\ retry_count[t] > 0 /\ retry_count[u] > 0

\* C20: a compare_exchange fails only if another thread's compare_exchange
\* succeeded since the failing thread last read the counter, the failing
\* thread retries with the value the counter holds, the counter never falls
\* and reaches the total, and every thread finishes.
CasLockFree ==
    /\ [][\A t \in Threads :
             retry_count'[t] > retry_count[t] =>
                 /\ OthersSuccesses(t) > seen[t]
                 /\ current'[t] = counter]_vars
    /\ [][counter' >= counter]_vars
    /\ <>(counter = NumThreads * IncrementsPerThread)
    /\ <>(\A t \in Threads : apc[t] = "done")

\* every thread finished and one of them had to retry twice
AllIncrementsDoneAfterRetries ==
    /\ \A t \in Threads : apc[t] = "done"
    /\ \E t \in Threads : retry_count[t] >= 2

====
